---------------------------- MODULE Spec2Model ----------------------------
(***************************************************************************)
(* Model of the Splashin receipt generator (src/webapp.py).                *)
(*                                                                         *)
(* Python strings are modelled as sequences of one-character strings, so   *)
(* that trimming, splitting and the regular expressions of the program     *)
(* are computed character by character, with the priorities of Python's   *)
(* backtracking matcher (leftmost start, greedy or lazy quantifiers).      *)
(***************************************************************************)
EXTENDS Integers, Sequences, FiniteSets, TLC

VARIABLES
    pc,             \* which handler ran last
    text_dump,      \* argument of parse_consolidated_line
    rows,           \* its return value
    data,           \* record argument of create_receipt_image
    whatsapp_data,  \* st.session_state.whatsapp_data
    edited_df,      \* the table shown by st.data_editor (key "editor")
    heap,           \* image objects: object id -> draw calls made on it
    rendered,       \* records handed to create_receipt_image by the last handler
    images,         \* image objects returned for them, in call order
    warning         \* st.warning was shown by the last handler

vars == <<pc, text_dump, rows, data, whatsapp_data, edited_df, heap,
          rendered, images, warning>>

-----------------------------------------------------------------------------
(* Bounds of the model.                                                    *)

MaxLen == 5
MaxLineLen == 7
MaxPieces == 3
MaxChunks == 4
MaxWords == 4
MaxRows == 2

-----------------------------------------------------------------------------
(* Characters and Python string primitives.                                *)

Whitespace == {" ", "\n", "\t"}
Digits == {"0", "1", "2", "3", "4", "5", "6", "7", "8", "9"}

IsSpace(c) == c \in Whitespace
IsDigit(c) == c \in Digits

Min(S) == CHOOSE x \in S : \A y \in S : x <= y
Max(S) == CHOOSE x \in S : \A y \in S : x >= y

\* s[a..b], empty when a > b
Slice(s, a, b) == IF a > b THEN <<>> ELSE SubSeq(s, a, b)

RECURSIVE Concat(_)
Concat(ss) == IF ss = <<>> THEN <<>> ELSE Head(ss) \o Concat(Tail(ss))

\* value returned for a cell or field that holds no string (Python's None)
NoneVal == <<"<None>">>

\* str(x)
Str(v) == IF v = NoneVal THEN <<"N", "o", "n", "e">> ELSE v

\* dict.get(key, default)
Get(d, key, default) == IF key \in DOMAIN d THEN d[key] ELSE default

\* str.strip()
Strip(s) ==
    LET keep == {i \in 1..Len(s) : ~IsSpace(s[i])}
    IN  IF keep = {} THEN <<>> ELSE SubSeq(s, Min(keep), Max(keep))

\* str.split('\n')
RECURSIVE SplitLines(_)
SplitLines(s) ==
    LET nl == {i \in 1..Len(s) : s[i] = "\n"}
    IN  IF nl = {} THEN <<s>>
        ELSE <<Slice(s, 1, Min(nl) - 1)>> \o SplitLines(Slice(s, Min(nl) + 1, Len(s)))

\* str.startswith
StartsWith(s, p) == Len(s) >= Len(p) /\ SubSeq(s, 1, Len(p)) = p

\* p in s
Contains(s, p) == \E i \in 0..(Len(s) - Len(p)) : SubSeq(s, i + 1, i + Len(p)) = p

LowerCase == <<"a", "b", "c", "d", "e", "f", "g", "h", "i", "j", "k", "l", "m",
          "n", "o", "p", "q", "r", "s", "t", "u", "v", "w", "x", "y", "z">>
UpperCase == <<"A", "B", "C", "D", "E", "F", "G", "H", "I", "J", "K", "L", "M",
            "N", "O", "P", "Q", "R", "S", "T", "U", "V", "W", "X", "Y", "Z">>

UpperChar(c) ==
    IF \E i \in 1..26 : LowerCase[i] = c
    THEN UpperCase[CHOOSE i \in 1..26 : LowerCase[i] = c] ELSE c

\* str.upper()
Upper(s) == [i \in 1..Len(s) |-> UpperChar(s[i])]

\* positions e >= from - 1 + 1 such that s[from..e] is a non-empty run of class P
RunEnds(s, from, P(_)) ==
    {e \in from..Len(s) : \A p \in from..e : P(s[p])}

-----------------------------------------------------------------------------
(* parse_consolidated_line                                                 *)

\* datetime.datetime.now().strftime("%Y-%m-%d")
Today == <<"2", "0", "2", "6", "-", "1", "1", "-", "0", "6">>

Ellipsis == <<".", ".", ".">>
EFT == <<"E", "F", "T">>

IsDot(c) == c # "\n"

\* re.search(r"^(.*?)\s+(R\d+)\s+(.*)$", s): every way the pattern can match,
\* as <<i, j, k, m>>: group 1 is s[1..i], the first \s+ is s[i+1..j], "R" is
\* s[j+1], the digits are s[j+2..k], the second \s+ is s[k+1..m] and group 3
\* is s[m+1..Len(s)].
LineMatches(s) ==
    UNION { UNION { UNION { { <<i, j, k, m>> :
                m \in {m \in RunEnds(s, k + 1, IsSpace) :
                         \A p \in (m + 1)..Len(s) : IsDot(s[p])} } :
              k \in RunEnds(s, j + 2, IsDigit) } :
            j \in {j \in RunEnds(s, i + 1, IsSpace) : j < Len(s) /\ s[j + 1] = "R"} } :
          i \in {i \in 0..Len(s) : \A p \in 1..i : IsDot(s[p])} }

\* a greedy group 1, (.*) for (.*?): the last amount wins
LineMatchGreedy(s) ==
    LET all == LineMatches(s)
        i   == Max({t[1] : t \in all})
        j   == Max({t[2] : t \in {u \in all : u[1] = i}})
        k   == Max({t[3] : t \in {u \in all : u[1] = i /\ u[2] = j}})
        m   == Max({t[4] : t \in {u \in all : u[1] = i /\ u[2] = j /\ u[3] = k}})
    IN  [group1 |-> Slice(s, 1, i),
         group2 |-> Slice(s, j + 1, k),
         group3 |-> Slice(s, m + 1, Len(s))]

\* The match the backtracking matcher returns: the lazy group 1 as short as
\* possible, then each greedy quantifier as long as possible, left to right.
LineMatch(s) ==
    LET all == LineMatches(s)
        i   == Min({t[1] : t \in all})
        j   == Max({t[2] : t \in {u \in all : u[1] = i}})
        k   == Max({t[3] : t \in {u \in all : u[1] = i /\ u[2] = j}})
        m   == Max({t[4] : t \in {u \in all : u[1] = i /\ u[2] = j /\ u[3] = k}})
    IN  [group1 |-> Slice(s, 1, i),
         group2 |-> Slice(s, j + 1, k),
         group3 |-> Slice(s, m + 1, Len(s))]

MatchedRow(m) ==
    [rn |-> <<>>, date |-> Today, name |-> Strip(m.group1),
     amount |-> Strip(m.group2), reason |-> Strip(m.group3), type |-> EFT]

\* the fallback built from the trimmed line
FallbackRowTrimmed(line) ==
    [rn |-> <<>>, date |-> Today,
     name |-> Slice(Strip(line), 1, Min({20, Len(Strip(line))})) \o Ellipsis,
     amount |-> <<>>, reason |-> Strip(line), type |-> EFT]

FallbackRow(line) ==
    [rn |-> <<>>, date |-> Today, name |-> Slice(line, 1, Min({20, Len(line)})) \o Ellipsis,
     amount |-> <<>>, reason |-> line, type |-> EFT]

\* a line the pattern does not match is skipped
ParseLineSkipUnmatched(line) ==
    IF Strip(line) = <<>> THEN <<>>
    ELSE IF LineMatches(Strip(line)) # {} THEN <<MatchedRow(LineMatch(Strip(line)))>>
    ELSE <<>>

\* the body of the for loop: the rows one line appends
ParseLine(line) ==
    IF Strip(line) = <<>> THEN <<>>
    ELSE IF LineMatches(Strip(line)) # {} THEN <<MatchedRow(LineMatch(Strip(line)))>>
    ELSE <<FallbackRow(line)>>

RECURSIVE ParseLines(_)
ParseLines(lines) ==
    IF lines = <<>> THEN <<>> ELSE ParseLine(Head(lines)) \o ParseLines(Tail(lines))

parse_consolidated_line(dump) == ParseLines(SplitLines(Strip(dump)))

-----------------------------------------------------------------------------
(* textwrap.wrap(text, width=45), with the library's defaults: tabs are     *)
(* expanded, whitespace becomes spaces, chunks are split at whitespace,     *)
(* hyphens and em-dashes, long words are broken.                            *)

Width == 45

Letters == {"a", "b", "c", "d", "e", "f", "g", "h", "i", "j", "k", "l", "m",
            "n", "o", "p", "q", "r", "s", "t", "u", "v", "w", "x", "y", "z",
            "A", "B", "C", "D", "E", "F", "G", "H", "I", "J", "K", "L", "M",
            "N", "O", "P", "Q", "R", "S", "T", "U", "V", "W", "X", "Y", "Z"}
IsLetter(c) == c \in Letters
IsWordChar(c) == c \in Letters \cup Digits \cup {"_"}
IsWordPunct(c) == IsWordChar(c) \/ c \in {"!", "\"", "'", "&", ".", ",", "?"}
IsHyphen(c) == c = "-"

\* the character at position i, or no character
At(s, i) == IF i \in 1..Len(s) THEN s[i] ELSE ""

\* str.translate: every whitespace character becomes a space
Translate(s) == [i \in 1..Len(s) |-> IF IsSpace(s[i]) THEN " " ELSE s[i]]

\* str.expandtabs(8) followed by the translation of whitespace to spaces; col
\* is the column at which s starts. Each tab becomes the spaces that reach the
\* next multiple of 8, columns counting from the last line break.
RECURSIVE Munge(_, _)
Munge(s, col) ==
    LET tabs == {i \in 1..Len(s) : s[i] = "\t"}
        t    == Min(tabs)
        nls  == {i \in 1..(t - 1) : s[i] = "\n"}
        c    == IF nls = {} THEN col + t - 1 ELSE t - 1 - Max(nls)
    IN  IF tabs = {} THEN Translate(s)
        ELSE Translate(Slice(s, 1, t - 1)) \o [i \in 1..(8 - (c % 8)) |-> " "]
               \o Munge(Slice(s, t + 1, Len(s)), 0)

\* (?<=word_punct) -{2,} (?=\w) at position i
EmDashAt(s, i) ==
    /\ IsWordPunct(At(s, i - 1))
    /\ At(s, i) = "-" /\ At(s, i + 1) = "-"
    /\ IsWordChar(At(s, Max(RunEnds(s, i, IsHyphen)) + 1))

\* the hyphen at position n ends a chunk: two letters (or letter, hyphen,
\* letter) before it and a letter, an optional hyphen and a letter after it
HyphenBreakAt(s, n) ==
    /\ At(s, n) = "-"
    /\ \/ IsLetter(At(s, n - 2)) /\ IsLetter(At(s, n - 1))
       \/ IsLetter(At(s, n - 3)) /\ At(s, n - 2) = "-" /\ IsLetter(At(s, n - 1))
    /\ IsLetter(At(s, n + 1))
    /\ \/ IsLetter(At(s, n + 2))
       \/ At(s, n + 2) = "-" /\ IsLetter(At(s, n + 3))

\* the last position of the chunk wordsep_re cuts at position i
ChunkEnd(s, i) ==
    IF IsSpace(s[i]) THEN Max(RunEnds(s, i, IsSpace))
    ELSE IF EmDashAt(s, i) THEN Max(RunEnds(s, i, IsHyphen))
    ELSE LET wordEnd == Max(RunEnds(s, i, LAMBDA c : ~IsSpace(c)))
             \* n is the position after the lazily matched characters
             stops == {n \in (i + 1)..(wordEnd + 1) :
                          \/ HyphenBreakAt(s, n)
                          \/ n = wordEnd + 1
                          \/ IsWordPunct(At(s, n - 1)) /\ EmDashAt(s, n)}
             n == Min(stops)
         IN  IF HyphenBreakAt(s, n) THEN n ELSE n - 1

RECURSIVE SplitChunks(_, _)
SplitChunks(s, i) ==
    IF i > Len(s) THEN <<>>
    ELSE <<SubSeq(s, i, ChunkEnd(s, i))>> \o SplitChunks(s, ChunkEnd(s, i) + 1)

IsBlank(chunk) == Strip(chunk) = <<>>

RECURSIVE TotalLen(_)
TotalLen(chunks) == IF chunks = <<>> THEN 0 ELSE Len(Head(chunks)) + TotalLen(Tail(chunks))

\* _handle_long_word: how many characters of the chunk go on the current line
LongWordCut(chunk, space_left) ==
    LET hy == {h \in 2..space_left : chunk[h] = "-" /\ \E p \in 1..(h - 1) : chunk[p] # "-"}
    IN  IF Len(chunk) > space_left /\ hy # {} THEN Max(hy) ELSE space_left

\* _wrap_chunks: one pass of the outer loop per line
RECURSIVE WrapChunks(_, _)
WrapChunks(chunks, lines) ==
    IF chunks = <<>> THEN lines
    ELSE
      LET c1 == IF IsBlank(Head(chunks)) /\ lines # <<>> THEN Tail(chunks) ELSE chunks
          n == Max({k \in 0..Len(c1) : TotalLen(SubSeq(c1, 1, k)) <= Width})
          cur == SubSeq(c1, 1, n)
          rest == SubSeq(c1, n + 1, Len(c1))
          long == rest # <<>> /\ Len(Head(rest)) > Width
          cut == IF long THEN LongWordCut(Head(rest), Width - TotalLen(cur)) ELSE 0
          cur2 == IF long THEN Append(cur, Slice(Head(rest), 1, cut)) ELSE cur
          rest2 == IF long THEN <<Slice(Head(rest), cut + 1, Len(Head(rest)))>> \o Tail(rest)
                   ELSE rest
          cur3 == IF cur2 # <<>> /\ IsBlank(cur2[Len(cur2)])
                  THEN SubSeq(cur2, 1, Len(cur2) - 1) ELSE cur2
      IN  WrapChunks(rest2, IF cur3 # <<>> THEN Append(lines, Concat(cur3)) ELSE lines)

\* the text cut every Width characters, whatever its words
WrapBySlicing(text) ==
    [i \in 1..((Len(text) + Width - 1) \div Width) |->
        Slice(text, Width * (i - 1) + 1, Min({Width * i, Len(text)}))]

Wrap(text) == WrapChunks(SplitChunks(Munge(text, 0), 1), <<>>)

-----------------------------------------------------------------------------
(* create_receipt_image                                                    *)

CASH == <<"C", "A", "S", "H">>

\* re.search(r"(.*)\((.*)\)", s): every way the pattern can match, as
\* <<st, p, q>>: the match starts after st characters, group 1 is
\* s[st+1..p-1], "(" is s[p], group 2 is s[p+1..q-1] and ")" is s[q].
ReasonMatches(s) ==
    LET opens  == {p \in 1..Len(s) : s[p] = "("}
        closes == {q \in 1..Len(s) : s[q] = ")"}
    IN  {t \in (0..Len(s)) \X opens \X closes :
            /\ t[1] < t[2] /\ t[2] < t[3]
            /\ \A x \in (t[1] + 1)..(t[3] - 1) : x = t[2] \/ IsDot(s[x])}

\* leftmost start, then both greedy groups as long as possible
ReasonMatch(s) ==
    LET all == ReasonMatches(s)
        st  == Min({t[1] : t \in all})
        p   == Max({t[2] : t \in {u \in all : u[1] = st}})
        q   == Max({t[3] : t \in {u \in all : u[1] = st /\ u[2] = p}})
    IN  [group1 |-> Slice(s, st + 1, p - 1), group2 |-> Slice(s, p + 1, q - 1)]

IsNotR(c) == c # "R"

\* R\d+\s+[^R]+ at position i: every way it can match, as <<k, m, e>>: the
\* digits end at k, the whitespace at m and the item at e
ItemMatches(s, i) ==
    IF At(s, i) # "R" THEN {}
    ELSE UNION { UNION { { <<k, m, e>> : e \in RunEnds(s, m + 1, IsNotR) } :
                   m \in RunEnds(s, k + 1, IsSpace) } :
                 k \in RunEnds(s, i + 1, IsDigit) }

ItemEnd(s, i) ==
    LET all == ItemMatches(s, i)
        k   == Max({t[1] : t \in all})
        m   == Max({t[2] : t \in {u \in all : u[1] = k}})
    IN  Max({t[3] : t \in {u \in all : u[1] = k /\ u[2] = m}})

\* re.findall(r"(R\d+\s+[^R]+)", s), scanning from position i: the next
\* position where the pattern matches starts an item, and the scan goes on
\* after the item
RECURSIVE FindItems(_, _)
FindItems(s, i) ==
    LET starts == {p \in i..Len(s) : ItemMatches(s, p) # {}}
        p == Min(starts)
    IN  IF starts = {} THEN <<>>
        ELSE <<SubSeq(s, p, ItemEnd(s, p))>> \o FindItems(s, ItemEnd(s, p) + 1)

\* the body handed to findall as it is
PatchedBodyNever(breakdown_text) == breakdown_text

\* the text handed to findall: "R" + body unless the body starts with "R"
PatchedBody(breakdown_text) ==
    IF ~StartsWith(Strip(breakdown_text), <<"R">>)
    THEN <<"R">> \o breakdown_text ELSE breakdown_text

BreakdownItems(breakdown_text) == FindItems(PatchedBody(breakdown_text), 1)

x_start == 260
y_start == 355
line_height == 20

Call(x, y, text, font) == [x |-> x, y |-> y, text |-> text, font |-> font]

\* the type compared as typed, without upper()
CheckboxDrawsCaseSensitive(d) ==
    LET payment_type == Strip(Str(Get(d, "type", EFT)))
    IN  IF Contains(payment_type, CASH)
        THEN <<Call(97, 172, <<"X">>, "check_font")>>
        ELSE <<Call(197, 172, <<"X">>, "check_font")>>

CheckboxDraws(d) ==
    LET payment_type == Upper(Strip(Str(Get(d, "type", EFT))))
    IN  IF Contains(payment_type, CASH)
        THEN <<Call(97, 172, <<"X">>, "check_font")>>
        ELSE <<Call(197, 172, <<"X">>, "check_font")>>

FieldDraws(d) ==
    << Call(400, 185, Str(Get(d, "rn", <<>>)), "font"),
       Call(260, 225, Str(Get(d, "name", <<>>)), "font"),
       Call(260, 290, Str(Get(d, "amount", <<>>)), "font"),
       Call(400, 443, Str(Get(d, "date", <<>>)), "font") >>

\* y_cursor is not advanced in the loop
BreakdownDrawsNoAdvance(match) ==
    LET main_reason == Strip(match.group1)
        breakdown_text == Strip(match.group2)
        items == FindItems(IF ~StartsWith(Strip(breakdown_text), <<"R">>)
                           THEN <<"R">> \o breakdown_text ELSE breakdown_text, 1)
    IN  <<[x |-> 260, y |-> 355, text |-> main_reason, font |-> "font"]>> \o
        [k \in 1..Len(items) |->
            [x |-> 270, y |-> 375, text |-> <<"-", " ">> \o Strip(items[k]), font |-> "font"]]

BreakdownDraws(match) ==
    LET main_reason == Strip(match.group1)
        breakdown_text == Strip(match.group2)
        items == BreakdownItems(breakdown_text)
    IN  <<Call(x_start, y_start, main_reason, "font")>> \o
        [k \in 1..Len(items) |->
            Call(x_start + 10, y_start + line_height + (k - 1) * line_height,
                 <<"-", " ">> \o Strip(items[k]), "font")]

WrapDraws(raw_reason) ==
    LET wrapped_lines == Wrap(raw_reason)
    IN  [i \in 1..Len(wrapped_lines) |->
            Call(x_start, y_start + (i - 1) * line_height, wrapped_lines[i], "font")]

ReasonDraws(d) ==
    LET raw_reason == Str(Get(d, "reason", <<>>))
    IN  IF ReasonMatches(raw_reason) # {}
        THEN BreakdownDraws(ReasonMatch(raw_reason))
        ELSE WrapDraws(raw_reason)

\* no copy is made: the image drawn on is the template itself
ImageAlias(h, id) == [heap |-> h, img |-> id]

\* template_img.copy(): a new image object holding the same drawing
ImageCopy(h, id) == [heap |-> Append(h, h[id]), img |-> Len(h) + 1]

\* draw.text on image object img, once per call in order
DrawAll(h, img, calls) == [h EXCEPT ![img] = @ \o calls]

\* the heap after the call and the image object returned
create_receipt_image(d, template_img, h) ==
    LET c == ImageCopy(h, template_img)
    IN  [heap |-> DrawAll(c.heap, c.img, CheckboxDraws(d) \o FieldDraws(d) \o ReasonDraws(d)),
         img |-> c.img]

-----------------------------------------------------------------------------
(* Inputs of the parser.                                                   *)

SeqsUpTo(S, n) == UNION {[1..k -> S] : k \in 0..n}

DumpAlphabet == {"a", "R", "1", " ", "\n"}
LineAlphabet == {"a", "R", "1", " "}
LongWord == [i \in 1..19 |-> "b"]
LineWords == {<<"a">>, <<"R", "1">>, <<"R", "2", "2">>, <<"a", "R", "1">>,
              <<"R", "1", "a">>, <<"R">>}

\* the words joined by single spaces
RECURSIVE JoinWords(_)
JoinWords(ws) ==
    IF ws = <<>> THEN <<>>
    ELSE IF Len(ws) = 1 THEN ws[1]
    ELSE ws[1] \o <<" ">> \o JoinWords(Tail(ws))

\* every text of at most MaxLen characters, every single line of at most
\* MaxLineLen characters, the short lines again behind a 19-letter word, and
\* the lines of at most MaxWords words
DumpInputs ==
    SeqsUpTo(DumpAlphabet, MaxLen) \cup SeqsUpTo(LineAlphabet, MaxLineLen)
      \cup {LongWord \o s : s \in SeqsUpTo(LineAlphabet, MaxLen)}
      \cup {JoinWords(ws) : ws \in SeqsUpTo(LineWords, MaxWords)}

-----------------------------------------------------------------------------
(* Inputs of the renderer.                                                 *)

Str_Feb == <<"F", "e", "b", " ">>
Str_Sadia == <<"S", "a", "d", "i", "a">>
Str_Fatima == <<"F", "a", "t", "i", "m", "a">>
Str_Rashid == <<"R", "a", "s", "h", "i", "d">>
Str_R675 == <<"R", "6", "7", "5", " ">>

\* the examples of the spec and of the form's placeholder
ExampleReasons ==
    { Str_Feb \o <<"(">> \o Str_R675 \o Str_Sadia \o <<" ">> \o Str_R675 \o Str_Fatima \o <<")">>,
      Str_Feb \o <<"(">> \o Tail(Str_R675) \o Str_Sadia \o <<")">>,
      Str_Feb \o <<"(">> \o Str_R675 \o Str_Rashid \o <<" ">> \o Str_R675 \o Str_Fatima \o <<")">> }

ItemPieces == {<<"R", "1", " ", "a">>, <<" ", "R", "2", " ", "b">>, <<"1", " ", "a">>,
               <<" ", "R", "a">>, <<"R", "3">>, <<"c">>, <<" ">>}
Mains == {<<>>, <<"F", " ">>, <<"(", "F", ")", " ">>}
Trails == {<<>>, <<" ", "t">>}

BreakdownReasons ==
    {m \o <<"(">> \o Concat(items) \o <<")">> \o t :
        m \in Mains, items \in SeqsUpTo(ItemPieces, MaxPieces), t \in Trails}

Word23 == [i \in 1..23 |-> "a"]
Word46 == [i \in 1..46 |-> "a"]
WrapPieces == {<<"a">>, <<" ">>, <<"-">>, <<"\n">>, <<"(">>, <<")">>, Word23, Word46}

PlainReasons == {Concat(ps) : ps \in SeqsUpTo(WrapPieces, MaxChunks)}

TypeInputs ==
    {EFT, CASH, <<"c", "a", "s", "h">>, <<" ", "C", "a", "s", "h", " ">>, <<>>, <<"x">>,
     <<"c", "a", "s", " ", "h">>, <<"x", "c", "a", "s", "H", "x">>, NoneVal}

Receipt(reason, type) ==
    [name |-> <<"X">>, amount |-> <<"R", "1">>, reason |-> reason, rn |-> <<"7">>,
     type |-> type, date |-> Today]

Restrict(d, keys) == [k \in keys |-> d[k]]

\* every reason with the default type, every type with one reason of each
\* mode, and records that lack some of their keys
RenderInputs ==
    {Receipt(r, EFT) : r \in BreakdownReasons \cup PlainReasons \cup ExampleReasons}
      \cup {Receipt(r, t) : r \in {<<"a">>, <<"F", " ", "(", "R", "1", " ", "a", ")">>},
                            t \in TypeInputs}
      \cup {Restrict(Receipt(<<"a">>, CASH), keys) :
                keys \in SUBSET {"name", "amount", "reason", "rn", "type", "date"}}

-----------------------------------------------------------------------------
(* The specifications of the two pure functions: the input is drawn by     *)
(* Init and one action applies the function.                               *)

\* the image object Image.open returns; nothing is drawn on it yet
template_image == 1

InitCommon ==
    /\ pc = "start"
    /\ rows = <<>>
    /\ whatsapp_data = <<[none |-> TRUE]>>
    /\ edited_df = <<>>
    /\ heap = <<<<>>>>
    /\ rendered = <<>>
    /\ images = <<>>
    /\ warning = FALSE

InitParse ==
    /\ text_dump \in DumpInputs
    /\ data = Receipt(<<>>, EFT)
    /\ InitCommon

Parse ==
    /\ pc = "start"
    /\ rows' = parse_consolidated_line(text_dump)
    /\ pc' = "parsed"
    /\ UNCHANGED <<text_dump, data, whatsapp_data, edited_df, heap, rendered, images, warning>>

NextParse == Parse

SpecParse == InitParse /\ [][NextParse]_vars

InitRender ==
    /\ data \in RenderInputs
    /\ text_dump = <<>>
    /\ InitCommon

Render ==
    /\ pc = "start"
    /\ LET res == create_receipt_image(data, template_image, heap)
       IN  /\ heap' = res.heap
           /\ images' = <<res.img>>
    /\ rendered' = <<data>>
    /\ pc' = "rendered"
    /\ UNCHANGED <<text_dump, rows, data, whatsapp_data, edited_df, warning>>

NextRender == Render

SpecRender == InitRender /\ [][NextRender]_vars

-----------------------------------------------------------------------------
(* The application: every action is one run of the Streamlit script, from  *)
(* the widget the user touched to the end of the script. Each run opens   *)
(* the uploaded template again (Image.open), and what a button's handler   *)
(* showed lasts until the next run.                                        *)

\* st.session_state.whatsapp_data = None: no list at all
NoList == <<[none |-> TRUE]>>

\* `if x:` for a list or None
Truthy(v) == v # NoList /\ v # <<>>

\* pasted texts: one line, two equal lines, two different lines, only blanks
AppDumps ==
    { <<"a", " ", "R", "1", " ", "c">>,
      <<"a", " ", "R", "1", " ", "c", "\n", "a", " ", "R", "1", " ", "c">>,
      <<"a", " ", "R", "1", " ", "(", "R", "1", " ", "b", ")", "\n", "x">>,
      <<" ">> }

\* what the user types into a receipt-number cell
RnInputs == {<<"7">>, <<" ">>, <<>>}

\* a row added in the editor: no cell is filled yet
NewRow ==
    [rn |-> NoneVal, date |-> NoneVal, name |-> NoneVal, amount |-> NoneVal,
     reason |-> NoneVal, type |-> NoneVal]

\* the fields of the single-receipt form
SingleInputs ==
    {[name |-> <<"a">>, amount |-> <<"R", "1">>, reason |-> r, rn |-> <<"1", "0", "0", "1">>,
      type |-> t, date |-> Today] :
        r \in {<<"c">>, <<"F", " ", "(", "R", "1", " ", "b", ")">>}, t \in {EFT, CASH}}
      \cup {[name |-> <<"a">>, amount |-> <<"R", "1">>, reason |-> <<"c">>, rn |-> <<"7">>,
             type |-> EFT, date |-> Today]}

\* the heap at the start of a run: the template alone
FreshHeap == <<<<>>>>

\* the for loop of the bulk handler: one create_receipt_image call per row
RECURSIVE RenderAll(_, _, _)
RenderAll(final_data, h, imgs) ==
    IF final_data = <<>> THEN [heap |-> h, images |-> imgs]
    ELSE LET res == create_receipt_image(Head(final_data), template_image, h)
         IN  RenderAll(Tail(final_data), res.heap, Append(imgs, res.img))

\* any(not str(row['rn']).strip() for row in final_data)
AnyRnBlank(final_data) ==
    \E i \in DOMAIN final_data : Strip(Str(final_data[i].rn)) = <<>>

NoOutput ==
    /\ heap' = FreshHeap
    /\ rendered' = <<>>
    /\ images' = <<>>
    /\ warning' = FALSE

Init ==
    /\ text_dump = <<>>
    /\ data = Receipt(<<>>, EFT)
    /\ InitCommon

AnalyzeList(raw_text) ==
    /\ raw_text # <<>>
    /\ whatsapp_data' = parse_consolidated_line(raw_text)
    /\ edited_df' = IF Truthy(whatsapp_data') THEN whatsapp_data' ELSE <<>>
    /\ pc' = "analyze"
    /\ NoOutput
    /\ UNCHANGED <<text_dump, rows, data>>

ClearList ==
    /\ Truthy(whatsapp_data)
    /\ whatsapp_data' = NoList
    /\ edited_df' = <<>>
    /\ pc' = "clear"
    /\ NoOutput
    /\ UNCHANGED <<text_dump, rows, data>>

EditCell(i, column, value) ==
    /\ Truthy(whatsapp_data)
    /\ i \in DOMAIN edited_df
    /\ edited_df' = [edited_df EXCEPT ![i][column] = value]
    /\ pc' = "edit"
    /\ NoOutput
    /\ UNCHANGED <<text_dump, rows, data, whatsapp_data>>

AddRow ==
    /\ Truthy(whatsapp_data)
    /\ Len(edited_df) < MaxRows
    /\ edited_df' = Append(edited_df, NewRow)
    /\ pc' = "edit"
    /\ NoOutput
    /\ UNCHANGED <<text_dump, rows, data, whatsapp_data>>

DeleteRow(i) ==
    /\ Truthy(whatsapp_data)
    /\ i \in DOMAIN edited_df
    /\ edited_df' = SubSeq(edited_df, 1, i - 1) \o SubSeq(edited_df, i + 1, Len(edited_df))
    /\ pc' = "edit"
    /\ NoOutput
    /\ UNCHANGED <<text_dump, rows, data, whatsapp_data>>

GenerateBulk ==
    /\ Truthy(whatsapp_data)
    /\ LET final_data == edited_df
           res == RenderAll(final_data, FreshHeap, <<>>)
       IN  IF AnyRnBlank(final_data)
           THEN /\ warning' = TRUE
                /\ heap' = FreshHeap
                /\ rendered' = <<>>
                /\ images' = <<>>
           ELSE /\ warning' = FALSE
                /\ heap' = res.heap
                /\ rendered' = final_data
                /\ images' = res.images
    /\ pc' = "bulk"
    /\ UNCHANGED <<text_dump, rows, data, whatsapp_data, edited_df>>

GenerateSingle(single_data) ==
    /\ LET res == create_receipt_image(single_data, template_image, FreshHeap)
       IN  /\ heap' = res.heap
           /\ images' = <<res.img>>
    /\ rendered' = <<single_data>>
    /\ warning' = FALSE
    /\ pc' = "single"
    /\ UNCHANGED <<text_dump, rows, data, whatsapp_data, edited_df>>

Next ==
    \/ \E raw_text \in AppDumps : AnalyzeList(raw_text)
    \/ ClearList
    \/ \E i \in 1..MaxRows, value \in RnInputs : EditCell(i, "rn", value)
    \/ \E i \in 1..MaxRows : EditCell(i, "type", CASH)
    \/ AddRow
    \/ \E i \in 1..MaxRows : DeleteRow(i)
    \/ GenerateBulk
    \/ \E single_data \in SingleInputs : GenerateSingle(single_data)

Spec == Init /\ [][Next]_vars

-----------------------------------------------------------------------------
(* Properties of parse_consolidated_line, checked under SpecParse.         *)
(* The lines of the pasted text are found here without the parser's own    *)
(* trimming and splitting.                                                 *)

NonSpace(s) == SelectSeq(s, LAMBDA c : ~IsSpace(c))

\* the position after which the line that starts at a ends
LineEndFrom(s, a) ==
    LET nl == {i \in a..Len(s) : s[i] = "\n"}
    IN  IF nl = {} THEN Len(s) ELSE Min(nl) - 1

\* first positions of the lines of s that hold a character other than whitespace
NonBlankStarts(s) ==
    {a \in {1} \cup {i + 1 : i \in {j \in 1..Len(s) : s[j] = "\n"}} :
        \E p \in a..LineEndFrom(s, a) : ~IsSpace(s[p])}

\* the line of s that starts at a, as pasted
RawLine(s, a) == Slice(s, a, LineEndFrom(s, a))

\* the same line once whitespace is trimmed from both ends of the whole text
ClippedLine(s, a) ==
    LET ink == {p \in 1..Len(s) : ~IsSpace(s[p])}
        lo  == IF a < Min(ink) THEN Min(ink) ELSE a
        hi  == IF LineEndFrom(s, a) > Max(ink) THEN Max(ink) ELSE LineEndFrom(s, a)
    IN  Slice(s, lo, hi)

\* the line's number among the lines that are not blank
Rank(s, a) == Cardinality({b \in NonBlankStarts(s) : b <= a})

BuiltFrom(row, line) ==
    IF row.amount = <<>> THEN Strip(row.reason) = Strip(line)
    ELSE NonSpace(row.name \o row.amount \o row.reason) = NonSpace(line)

\* C1: the parser returns exactly one record per line that is not blank, in
\* the order of the lines, and the characters of the i-th record are those of
\* the i-th such line: no line is dropped and none yields two records.
C1_OneRecordPerLine ==
    pc = "parsed" =>
        /\ Len(rows) = Cardinality(NonBlankStarts(text_dump))
        /\ \A a \in NonBlankStarts(text_dump) :
              BuiltFrom(rows[Rank(text_dump, a)], RawLine(text_dump, a))

\* two records from a text of three lines or more, one of them blank
C1_Witness ==
    /\ pc = "parsed"
    /\ Len(rows) = 2
    /\ rows[1] # rows[2]
    /\ \E i \in 1..(Len(text_dump) - 1) : text_dump[i] = "\n" /\ text_dump[i + 1] = "\n"

MatchedForm(name, amount, reason) ==
    [rn |-> <<>>, date |-> Today, name |-> name, amount |-> amount,
     reason |-> reason, type |-> EFT]

\* the digits that follow the R at position a end here
DigitsEnd(t, a) == Max(RunEnds(t, a + 1, IsDigit))

\* positions of an R followed by a digit
AmountStarts(t) == {a \in 1..Len(t) : t[a] = "R" /\ IsDigit(At(t, a + 1))}

\* ... that stands as a word of its own, with text before and after it
AmountWordStarts(t) ==
    {a \in AmountStarts(t) :
        /\ IsSpace(At(t, a - 1))
        /\ IsSpace(At(t, DigitsEnd(t, a) + 1))}

SplitAt(t, a) ==
    MatchedForm(Strip(Slice(t, 1, a - 1)), Slice(t, a, DigitsEnd(t, a)),
                Strip(Slice(t, DigitsEnd(t, a) + 1, Len(t))))

\* C2 as claimed: a line with an R<digits> anywhere, the name being optional,
\* is split at its first R<digits>.
C2_SplitAtFirstAmount ==
    pc = "parsed" =>
        \A a \in NonBlankStarts(text_dump) :
            LET t == Strip(RawLine(text_dump, a))
            IN  AmountStarts(t) # {} =>
                    rows[Rank(text_dump, a)] = SplitAt(t, Min(AmountStarts(t)))

\* C2 amended: a line is split at the first R<digits> that is a word of its
\* own with text on both sides: the name is the trimmed text before it, the
\* amount the word, the reason the trimmed rest, later amounts included.
C2_SplitAtFirstAmountWord ==
    pc = "parsed" =>
        \A a \in NonBlankStarts(text_dump) :
            LET t == Strip(RawLine(text_dump, a))
            IN  AmountWordStarts(t) # {} =>
                    rows[Rank(text_dump, a)] = SplitAt(t, Min(AmountWordStarts(t)))

\* "a R1 R22 a": the second amount stays in the reason
C2_Witness ==
    /\ pc = "parsed"
    /\ text_dump = <<"a", " ", "R", "1", " ", "R", "2", "2", " ", "a">>
    /\ rows = <<MatchedForm(<<"a">>, <<"R", "1">>, <<"R", "2", "2", " ", "a">>)>>

FallbackForm(line) ==
    [rn |-> <<>>, date |-> Today,
     name |-> (IF Len(line) > 20 THEN SubSeq(line, 1, 20) ELSE line) \o <<".", ".", ".">>,
     amount |-> <<>>, reason |-> line, type |-> EFT]

\* C3 as claimed: a line without any R<digits> yields the fallback record of
\* the line as pasted.
C3_FallbackOfPastedLine ==
    pc = "parsed" =>
        \A a \in NonBlankStarts(text_dump) :
            AmountStarts(RawLine(text_dump, a)) = {} =>
                rows[Rank(text_dump, a)] = FallbackForm(RawLine(text_dump, a))

\* C3 amended: a line without any R<digits> yields the fallback record of the
\* line as it stands in the text trimmed at both ends: the line's own leading
\* and trailing whitespace is kept, except the whitespace that starts or ends
\* the whole text.
C3_FallbackOfClippedLine ==
    pc = "parsed" =>
        \A a \in NonBlankStarts(text_dump) :
            AmountStarts(RawLine(text_dump, a)) = {} =>
                rows[Rank(text_dump, a)] = FallbackForm(ClippedLine(text_dump, a))

\* a fallback record of a line longer than 20 characters
C3_Witness ==
    /\ pc = "parsed"
    /\ Len(rows) = 1
    /\ AmountStarts(text_dump) = {}
    /\ Len(rows[1].reason) > 20
    /\ rows[1].name = SubSeq(text_dump, 1, 20) \o <<".", ".", ".">>
    /\ rows[1].amount = <<>>

-----------------------------------------------------------------------------
(* Properties of create_receipt_image, checked under SpecRender on the     *)
(* draw calls made on the image it returns.                                *)

\* the draw calls of the image rendered last
Drawn == heap[images[1]]

\* the reason as the renderer reads it
ReasonOf(d) == Str(Get(d, "reason", <<>>))

\* the calls that follow the checkbox and the four fields
ReasonArea == SubSeq(Drawn, 6, Len(Drawn))

Texts(calls) == [i \in 1..Len(calls) |-> calls[i].text]

BreakdownMode == pc = "rendered" /\ ReasonMatches(ReasonOf(data)) # {}
WrapMode == pc = "rendered" /\ ReasonMatches(ReasonOf(data)) = {}

\* the trimmed text between the parentheses
BodyOf(d) == Strip(ReasonMatch(ReasonOf(d)).group2)

Bullets(items) == [k \in 1..Len(items) |-> <<"-", " ">> \o Strip(items[k])]

\* the calls that draw the items of the breakdown
ItemCalls == SelectSeq(ReasonArea, LAMBDA c : c.x = 270)

\* The items as C4 describes them: each starts at an R with digits and
\* whitespace after it, and runs up to the next R that a digit follows, or to
\* the end of the body.
RECURSIVE ItemsUpToNextAmount(_, _)
ItemsUpToNextAmount(s, i) ==
    LET starts == {p \in AmountStarts(s) : p >= i /\ IsSpace(At(s, DigitsEnd(s, p) + 1))}
        p      == Min(starts)
        nexts  == {q \in AmountStarts(s) : q > p}
        e      == IF nexts = {} THEN Len(s) ELSE Min(nexts) - 1
    IN  IF starts = {} THEN <<>>
        ELSE <<SubSeq(s, p, e)>> \o ItemsUpToNextAmount(s, e + 1)

\* C4: the items drawn for a breakdown are the segments of its body that
\* start with R, digits and whitespace and run up to the next R followed by
\* digits or to the end of the body, so that an item may hold an R that no
\* digit follows (a name such as Rashid).
C4_ItemsRunToNextAmount ==
    BreakdownMode =>
        Texts(ItemCalls) = Bullets(ItemsUpToNextAmount(PatchedBody(BodyOf(data)), 1))

\* whitespace-separated words, found from the positions where a word starts
WordStarts(s) == {a \in 1..Len(s) : ~IsSpace(s[a]) /\ IsSpace(At(s, a - 1) ) } \cup
                 {a \in {1} : Len(s) > 0 /\ ~IsSpace(s[1])}
WordEnd(s, a) == Max(RunEnds(s, a, LAMBDA c : ~IsSpace(c)))

\* the words of s joined by single spaces
Normalized(s) ==
    LET starts == WordStarts(s)
        word(k) == LET a == CHOOSE a \in starts : Cardinality({b \in starts : b <= a}) = k
                   IN  SubSeq(s, a, WordEnd(s, a))
    IN  JoinWords([k \in 1..Cardinality(starts) |-> word(k)])

NoLongWord(s) == \A a \in WordStarts(s) : WordEnd(s, a) - a + 1 <= 45
NoHyphen(s) == \A i \in 1..Len(s) : s[i] # "-"

\* C6 as claimed: the lines drawn are at most 45 characters long and, no word
\* being longer than a line, joined by single spaces they are the reason with
\* its whitespace normalized.
C6_JoinedLinesAreNormalizedReason ==
    WrapMode =>
        /\ \A i \in 1..Len(ReasonArea) : Len(ReasonArea[i].text) <= 45
        /\ NoLongWord(ReasonOf(data)) =>
              JoinWords(Texts(ReasonArea)) = Normalized(ReasonOf(data))

\* C6 amended: the lines drawn are at most 45 characters long and, when the
\* reason holds no hyphen and no word longer than a line, the lines joined by
\* single spaces are the reason up to whitespace: both have the same words in
\* the same order (a line keeps the runs of spaces between its words, and the
\* first line its leading spaces).
C6_JoinedLinesHaveReasonWords ==
    WrapMode =>
        /\ \A i \in 1..Len(ReasonArea) : Len(ReasonArea[i].text) <= 45
        /\ NoLongWord(ReasonOf(data)) /\ NoHyphen(ReasonOf(data)) =>
              Normalized(JoinWords(Texts(ReasonArea))) = Normalized(ReasonOf(data))

\* two words of 23 letters on two lines
C6_Witness ==
    /\ WrapMode
    /\ ReasonOf(data) = Word23 \o <<"\n">> \o Word23
    /\ Texts(ReasonArea) = <<Word23, Word23>>

\* the type as the renderer reads it
TypeOf(d) == Str(Get(d, "type", <<"E", "F", "T">>))

\* "cash" occurs in t, in any casing
HasCash(t) ==
    \E i \in 1..(Len(t) - 3) :
        /\ t[i] \in {"c", "C"} /\ t[i + 1] \in {"a", "A"}
        /\ t[i + 2] \in {"s", "S"} /\ t[i + 3] \in {"h", "H"}

\* the calls at the two checkbox positions
MarkCalls == SelectSeq(Drawn, LAMBDA c : c.y = 172 /\ c.x \in {97, 197})

\* C7: every rendering draws exactly one checkbox mark "X", at (97,172) if the
\* payment type holds "cash" in any casing and at (197,172) for every other
\* type, an empty, unknown or missing one included.
C7_OneCheckboxMark ==
    pc = "rendered" =>
        /\ Len(MarkCalls) = 1
        /\ MarkCalls[1].text = <<"X">>
        /\ MarkCalls[1].x = 97 <=> HasCash(TypeOf(data))

\* "xcasHx" marks CASH
C7_Witness ==
    /\ pc = "rendered"
    /\ "type" \in DOMAIN data
    /\ data.type = <<"x", "c", "a", "s", "H", "x">>
    /\ MarkCalls = <<Call(97, 172, <<"X">>, "check_font")>>

\* C8: the items drawn are extracted from the breakdown body with one "R" put
\* before it when the body does not start with R, and from the body itself
\* when it does; "Feb (675 Sadia)" yields the one item "R675 Sadia".
C8_PrependsMissingR ==
    BreakdownMode =>
        /\ Texts(ItemCalls) =
              Bullets(FindItems(IF At(BodyOf(data), 1) = "R" THEN BodyOf(data)
                                ELSE <<"R">> \o BodyOf(data), 1))
        /\ ReasonOf(data) = Str_Feb \o <<"(">> \o Tail(Str_R675) \o Str_Sadia \o <<")">> =>
              Texts(ItemCalls) = <<<<"-", " ">> \o Str_R675 \o Str_Sadia>>

C8_Witness ==
    /\ BreakdownMode
    /\ ReasonOf(data) = Str_Feb \o <<"(">> \o Tail(Str_R675) \o Str_Sadia \o <<")">>
    /\ Len(ReasonArea) = 2
    /\ ReasonArea[2].text = <<"-", " ">> \o Str_R675 \o Str_Sadia

\* the text before the last "(" that a ")" follows
PrefixOf(s) ==
    LET opens == {p \in 1..Len(s) : s[p] = "(" /\ \E q \in (p + 1)..Len(s) : s[q] = ")"}
    IN  Slice(s, 1, Max(opens) - 1)

-----------------------------------------------------------------------------
(* Properties of the application, checked under Spec.                      *)

\* a receipt-number cell that is missing, empty or holds only whitespace
LacksReceiptNumber(row) ==
    row.rn = NoneVal \/ \A i \in 1..Len(row.rn) : IsSpace(row.rn[i])

\* C5: after Generate Bulk Receipts is pressed, if a row of the table lacks
\* its receipt number (a row added in the editor and never filled included) a
\* warning is shown and the renderer was not called; otherwise it was called
\* once per row, in table order.
C5_NoRenderingWithoutReceiptNumber ==
    pc = "bulk" =>
        IF \E i \in DOMAIN edited_df : LacksReceiptNumber(edited_df[i])
        THEN warning /\ rendered = <<>> /\ images = <<>>
        ELSE ~warning /\ rendered = edited_df /\ Len(images) = Len(edited_df)

\* the template holds no draw call, every image returned is an object of its
\* own, and equal records gave equal images
TemplateIntact ==
    /\ heap[template_image] = <<>>
    /\ Len(images) = Len(rendered)
    /\ \A i \in DOMAIN images : images[i] # template_image /\ heap[images[i]] # <<>>
    /\ \A i, j \in DOMAIN images :
          /\ images[i] = images[j] => i = j
          /\ rendered[i] = rendered[j] => heap[images[i]] = heap[images[j]]

\* a record rendered by two handlers in a row gives the same image
SameImageAgain ==
    \A i \in DOMAIN rendered : \A j \in DOMAIN rendered' :
        rendered[i] = rendered'[j] => heap[images[i]] = heap'[images'[j]]

\* C9: whatever is rendered, singly or in bulk, the template is never drawn
\* on, every call draws on a copy of its own, and a record rendered twice from
\* the template gives twice the same draw calls.
C9_TemplateNeverMutated == [](TemplateIntact) /\ [][SameImageAgain]_vars

\* a bulk run that rendered the same record twice
C9_Witness ==
    /\ pc = "bulk"
    /\ Len(images) = 2
    /\ rendered[1] = rendered[2]
    /\ heap[images[1]] = heap[images[2]]
    /\ Len(heap[images[2]]) = 6

=============================================================================
